---- MODULE Spec2Model ----
(***************************************************************************)
(* A model of the staleness-aware ingestion core of pokemon-scouting:      *)
(* IngestService.ingest_many and _upsert over a SQLAlchemy session, the    *)
(* Flask-Caching wrapper, the PokeAPI client with its alias table, the     *)
(* sanitizer, and the APScheduler refresh job.                             *)
(*                                                                         *)
(* Strings are sequences of one-character strings, so that lower(),        *)
(* strip() and the isalnum() filter are computed character by character.   *)
(* An optional value (Python None / SQL NULL) is the empty tuple <<>>, a   *)
(* present value v is <<v>>.                                               *)
(***************************************************************************)
EXTENDS Integers, Sequences, FiniteSets, TLC

(***************************************************************************)
(* Bounds of the model.                                                    *)
(***************************************************************************)
\* Largest value of the clock.
MaxTime == 2
\* Longest batch of names handed to one ingest_many call by a request.
MaxBatch == 2
\* Largest number of scheduler ticks that are counted.
MaxTicks == 3
\* Largest number of ingest_many calls one request after another completes.
MaxCalls == 2

(***************************************************************************)
(* Configuration (app/handlers/config.py), in clock units.                 *)
(***************************************************************************)
STALE_TTL_MINUTES == 1
CACHE_DEFAULT_TIMEOUT == 1
REFRESH_BATCH_SIZE == 2
\* scheduler.add_job(..., max_instances=1)
max_instances == 1

None == <<>>
Some(v) == <<v>>
IsNone(x) == x = <<>>
Val(x) == x[1]

(***************************************************************************)
(* str.lower(), str.strip(), str.isalnum()                                 *)
(***************************************************************************)
UpperChars == <<"A","B","C","D","E","F","G","H","I","J","K","L","M",
                "N","O","P","Q","R","S","T","U","V","W","X","Y","Z">>
LowerChars == <<"a","b","c","d","e","f","g","h","i","j","k","l","m",
                "n","o","p","q","r","s","t","u","v","w","x","y","z">>
DigitChars == {"0","1","2","3","4","5","6","7","8","9"}

LowerChar(ch) ==
  IF \E i \in 1..26 : UpperChars[i] = ch
  THEN LowerChars[CHOOSE i \in 1..26 : UpperChars[i] = ch]
  ELSE ch

lower(s) == [i \in 1..Len(s) |-> LowerChar(s[i])]

isalnum(ch) ==
  \/ ch \in DigitChars
  \/ \E i \in 1..26 : ch = UpperChars[i] \/ ch = LowerChars[i]

strip(s) ==
  LET keep == {i \in 1..Len(s) : s[i] # " "}
  IN  IF keep = {} THEN <<>>
      ELSE SubSeq(s, CHOOSE i \in keep : \A j \in keep : i <= j,
                     CHOOSE i \in keep : \A j \in keep : i >= j)

\* "".join(ch for ch in s if ch.isalnum())
KeepAlnum(s) == SelectSeq(s, isalnum)

(***************************************************************************)
(* PokeAPIClient.POKEMON_ALIASES: <<normalized input, upstream slug>>.     *)
(***************************************************************************)
POKEMON_ALIASES ==
   <<
      <<<<"n","i","d","o","r","a","n","f">>, <<"n","i","d","o","r","a","n","-","f">>>>,
      <<<<"n","i","d","o","r","a","n","m">>, <<"n","i","d","o","r","a","n","-","m">>>>,
      <<<<"d","r","o","w","z","e","e">>, <<"D","r","o","w","z","e","e">>>>,
      <<<<"m","r","m","i","m","e">>, <<"m","r","-","m","i","m","e">>>>,
      <<<<"m","e","w","t","w","o">>, <<"M","e","w","T","w","o">>>>,
      <<<<"h","o","o","h">>, <<"h","o","-","o","h">>>>,
      <<<<"d","e","o","x","y","s","n","o","r","m","a","l">>, <<"d","e","o","x","y","s","-","n","o","r","m","a","l">>>>,
      <<<<"w","o","r","m","a","d","a","m","p","l","a","n","t">>, <<"w","o","r","m","a","d","a","m","-","p","l","a","n","t">>>>,
      <<<<"d","r","i","f","l","o","o","n">>, <<"D","r","i","f","l","o","o","n">>>>,
      <<<<"m","i","m","e","j","r">>, <<"m","i","m","e","-","j","r">>>>,
      <<<<"p","o","r","y","g","o","n","z">>, <<"p","o","r","y","g","o","n","-","z">>>>,
      <<<<"g","i","r","a","t","i","n","a","a","l","t","e","r","e","d">>, <<"g","i","r","a","t","i","n","a","-","a","l","t","e","r","e","d">>>>,
      <<<<"s","h","a","y","m","i","n","l","a","n","d">>, <<"s","h","a","y","m","i","n","-","l","a","n","d">>>>,
      <<<<"b","a","s","c","u","l","i","n","r","e","d","s","t","r","i","p","e","d">>, <<"b","a","s","c","u","l","i","n","-","r","e","d","-","s","t","r","i","p","e","d">>>>,
      <<<<"d","a","r","m","a","n","i","t","a","n","s","t","a","n","d","a","r","d">>, <<"d","a","r","m","a","n","i","t","a","n","-","s","t","a","n","d","a","r","d">>>>,
      <<<<"t","o","r","n","a","d","u","s","i","n","c","a","r","n","a","t","e">>, <<"t","o","r","n","a","d","u","s","-","i","n","c","a","r","n","a","t","e">>>>,
      <<<<"t","h","u","n","d","u","r","u","s","i","n","c","a","r","n","a","t","e">>, <<"t","h","u","n","d","u","r","u","s","-","i","n","c","a","r","n","a","t","e">>>>,
      <<<<"l","a","n","d","o","r","u","s","i","n","c","a","r","n","a","t","e">>, <<"l","a","n","d","o","r","u","s","-","i","n","c","a","r","n","a","t","e">>>>,
      <<<<"k","e","l","d","e","o","o","r","d","i","n","a","r","y">>, <<"k","e","l","d","e","o","-","o","r","d","i","n","a","r","y">>>>,
      <<<<"m","e","l","o","e","t","t","a","a","r","i","a">>, <<"m","e","l","o","e","t","t","a","-","a","r","i","a">>>>,
      <<<<"m","e","o","w","s","t","i","c","m","a","l","e">>, <<"m","e","o","w","s","t","i","c","-","m","a","l","e">>>>,
      <<<<"a","e","g","i","s","l","a","s","h","s","h","i","e","l","d">>, <<"a","e","g","i","s","l","a","s","h","-","s","h","i","e","l","d">>>>,
      <<<<"p","u","m","p","k","a","b","o","o","a","v","e","r","a","g","e">>, <<"p","u","m","p","k","a","b","o","o","-","a","v","e","r","a","g","e">>>>,
      <<<<"g","o","u","r","g","e","i","s","t","a","v","e","r","a","g","e">>, <<"g","o","u","r","g","e","i","s","t","-","a","v","e","r","a","g","e">>>>,
      <<<<"z","y","g","a","r","d","e","5","0">>, <<"z","y","g","a","r","d","e","-","5","0">>>>,
      <<<<"o","r","i","c","o","r","i","o","b","a","i","l","e">>, <<"o","r","i","c","o","r","i","o","-","b","a","i","l","e">>>>,
      <<<<"l","y","c","a","n","r","o","c","m","i","d","d","a","y">>, <<"l","y","c","a","n","r","o","c","-","m","i","d","d","a","y">>>>,
      <<<<"w","i","s","h","i","w","a","s","h","i","s","o","l","o">>, <<"w","i","s","h","i","w","a","s","h","i","-","s","o","l","o">>>>,
      <<<<"t","y","p","e","n","u","l","l">>, <<"t","y","p","e","-","n","u","l","l">>>>,
      <<<<"m","i","n","i","o","r","r","e","d","m","e","t","e","o","r">>, <<"m","i","n","i","o","r","-","r","e","d","-","m","e","t","e","o","r">>>>,
      <<<<"m","i","m","i","k","y","u","d","i","s","g","u","i","s","e","d">>, <<"m","i","m","i","k","y","u","-","d","i","s","g","u","i","s","e","d">>>>,
      <<<<"j","a","n","g","m","o","o">>, <<"j","a","n","g","m","o","-","o">>>>,
      <<<<"h","a","k","a","m","o","o">>, <<"h","a","k","a","m","o","-","o">>>>,
      <<<<"k","o","m","m","o","o">>, <<"k","o","m","m","o","-","o">>>>,
      <<<<"t","a","p","u","k","o","k","o">>, <<"t","a","p","u","-","k","o","k","o">>>>,
      <<<<"t","a","p","u","l","e","l","e">>, <<"t","a","p","u","-","l","e","l","e">>>>,
      <<<<"t","a","p","u","b","u","l","u">>, <<"t","a","p","u","-","b","u","l","u">>>>,
      <<<<"t","a","p","u","f","i","n","i">>, <<"t","a","p","u","-","f","i","n","i">>>>,
      <<<<"t","o","x","t","r","i","c","i","t","y","a","m","p","e","d">>, <<"t","o","x","t","r","i","c","i","t","y","-","a","m","p","e","d">>>>,
      <<<<"m","r","r","i","m","e">>, <<"m","r","-","r","i","m","e">>>>,
      <<<<"e","i","s","c","u","e","i","c","e">>, <<"e","i","s","c","u","e","-","i","c","e">>>>,
      <<<<"i","n","d","e","e","d","e","e","m","a","l","e">>, <<"i","n","d","e","e","d","e","e","-","m","a","l","e">>>>,
      <<<<"m","o","r","p","e","k","o","f","u","l","l","b","e","l","l","y">>, <<"m","o","r","p","e","k","o","-","f","u","l","l","-","b","e","l","l","y">>>>,
      <<<<"u","r","s","h","i","f","u","s","i","n","g","l","e","s","t","r","i","k","e">>, <<"u","r","s","h","i","f","u","-","s","i","n","g","l","e","-","s","t","r","i","k","e">>>>,
      <<<<"b","a","s","c","u","l","e","g","i","o","n","m","a","l","e">>, <<"b","a","s","c","u","l","e","g","i","o","n","-","m","a","l","e">>>>,
      <<<<"e","n","a","m","o","r","u","s","i","n","c","a","r","n","a","t","e">>, <<"e","n","a","m","o","r","u","s","-","i","n","c","a","r","n","a","t","e">>>>,
      <<<<"o","i","n","k","o","l","o","g","n","e","m","a","l","e">>, <<"o","i","n","k","o","l","o","g","n","e","-","m","a","l","e">>>>,
      <<<<"m","a","u","s","h","o","l","d","f","a","m","i","l","y","o","f","f","o","u","r">>, <<"m","a","u","s","h","o","l","d","-","f","a","m","i","l","y","-","o","f","-","f","o","u","r">>>>,
      <<<<"s","q","u","a","w","k","a","b","i","l","l","y","g","r","e","e","n","p","l","u","m","a","g","e">>, <<"s","q","u","a","w","k","a","b","i","l","l","y","-","g","r","e","e","n","-","p","l","u","m","a","g","e">>>>,
      <<<<"p","a","l","a","f","i","n","z","e","r","o">>, <<"p","a","l","a","f","i","n","-","z","e","r","o">>>>,
      <<<<"t","a","t","s","u","g","i","r","i","c","u","r","l","y">>, <<"t","a","t","s","u","g","i","r","i","-","c","u","r","l","y">>>>,
      <<<<"d","u","d","u","n","s","p","a","r","c","e","t","w","o","s","e","g","m","e","n","t">>, <<"d","u","d","u","n","s","p","a","r","c","e","-","t","w","o","-","s","e","g","m","e","n","t">>>>,
      <<<<"g","r","e","a","t","t","u","s","k">>, <<"g","r","e","a","t","-","t","u","s","k">>>>,
      <<<<"s","c","r","e","a","m","t","a","i","l">>, <<"s","c","r","e","a","m","-","t","a","i","l">>>>,
      <<<<"b","r","u","t","e","b","o","n","n","e","t">>, <<"b","r","u","t","e","-","b","o","n","n","e","t">>>>,
      <<<<"f","l","u","t","t","e","r","m","a","n","e">>, <<"f","l","u","t","t","e","r","-","m","a","n","e">>>>,
      <<<<"s","l","i","t","h","e","r","w","i","n","g">>, <<"s","l","i","t","h","e","r","-","w","i","n","g">>>>,
      <<<<"s","a","n","d","y","s","h","o","c","k","s">>, <<"s","a","n","d","y","-","s","h","o","c","k","s">>>>,
      <<<<"i","r","o","n","t","r","e","a","d","s">>, <<"i","r","o","n","-","t","r","e","a","d","s">>>>,
      <<<<"i","r","o","n","b","u","n","d","l","e">>, <<"i","r","o","n","-","b","u","n","d","l","e">>>>,
      <<<<"i","r","o","n","h","a","n","d","s">>, <<"i","r","o","n","-","h","a","n","d","s">>>>,
      <<<<"i","r","o","n","j","u","g","u","l","i","s">>, <<"i","r","o","n","-","j","u","g","u","l","i","s">>>>,
      <<<<"i","r","o","n","m","o","t","h">>, <<"i","r","o","n","-","m","o","t","h">>>>,
      <<<<"i","r","o","n","t","h","o","r","n","s">>, <<"i","r","o","n","-","t","h","o","r","n","s">>>>,
      <<<<"w","o","c","h","i","a","n">>, <<"w","o","-","c","h","i","e","n">>>>,
      <<<<"c","h","i","e","n","p","a","o">>, <<"c","h","i","e","n","-","p","a","o">>>>,
      <<<<"t","i","n","g","l","u">>, <<"t","i","n","g","-","l","u">>>>,
      <<<<"c","h","i","y","u">>, <<"c","h","i","-","y","u">>>>,
      <<<<"r","o","a","r","i","n","g","m","o","o","n">>, <<"r","o","a","r","i","n","g","-","m","o","o","n">>>>,
      <<<<"i","r","o","n","v","a","l","i","a","n","t">>, <<"i","r","o","n","-","v","a","l","i","a","n","t">>>>,
      <<<<"w","a","l","k","i","n","g","w","a","k","e">>, <<"w","a","l","k","i","n","g","-","w","a","k","e">>>>,
      <<<<"i","r","o","n","l","e","a","v","e","s">>, <<"i","r","o","n","-","l","e","a","v","e","s">>>>,
      <<<<"g","o","u","g","i","n","g","f","i","r","e">>, <<"g","o","u","g","i","n","g","-","f","i","r","e">>>>,
      <<<<"r","a","g","i","n","g","b","o","l","t">>, <<"r","a","g","i","n","g","-","b","o","l","t">>>>,
      <<<<"i","r","o","n","b","o","u","l","d","e","r">>, <<"i","r","o","n","-","b","o","u","l","d","e","r">>>>,
      <<<<"i","r","o","n","c","r","o","w","n">>, <<"i","r","o","n","-","c","r","o","w","n">>>>
   >>

AliasGetNormalized(normalized, raw) ==
  IF \E i \in 1..Len(POKEMON_ALIASES) : POKEMON_ALIASES[i][1] = normalized
  THEN POKEMON_ALIASES[CHOOSE i \in 1..Len(POKEMON_ALIASES) :
                         POKEMON_ALIASES[i][1] = normalized][2]
  ELSE normalized

\* dict.get(normalized, raw)
AliasGet(normalized, raw) ==
  IF \E i \in 1..Len(POKEMON_ALIASES) : POKEMON_ALIASES[i][1] = normalized
  THEN POKEMON_ALIASES[CHOOSE i \in 1..Len(POKEMON_ALIASES) :
                         POKEMON_ALIASES[i][1] = normalized][2]
  ELSE raw

\* The alias resolver's lookup token (line 132): the alphanumerics of the
\* trimmed, lowercased input.
AliasToken(name) == KeepAlnum(lower(strip(name)))

\* The slug PokeAPIClient.get_pokemon_by_name requests for an input name.
Slug(name) ==
  LET raw == strip(name)
      normalized == AliasToken(name)
  IN  AliasGet(normalized, raw)

\* The orchestrator's cache key token (the "pokeapi:" prefix is constant).
CacheKey(name) == KeepAlnum(lower(strip(name)))

(***************************************************************************)
(* schemas/pokemon.py STAT_KEYS and the sanitizer.                         *)
(***************************************************************************)
STAT_KEYS == {"hp", "attack", "defense", "special-attack", "special-defense", "speed"}

\* raw.get(field, 0) or 0
GetOrZero(raw, field) == IF field \in DOMAIN raw THEN raw[field] ELSE 0

\* The raw number kept as it is.
NoConversion(x) == [int |-> x, tenths |-> 0]

\* float(x) / 10.0 as a decimal numeral: integer part and tenths.
DivTen(x) == [int |-> x \div 10, tenths |-> x % 10]

\* _extract_stats: every canonical key starts at 0; a list entry whose name
\* is canonical overwrites its key, later entries win, others are ignored.
RECURSIVE ExtractFrom(_, _)
ExtractFrom(stats, raw_stats) ==
  IF raw_stats = <<>> THEN stats
  ELSE LET item == Head(raw_stats)
           next == IF item.stat \in STAT_KEYS
                   THEN [stats EXCEPT ![item.stat] = item.base_stat]
                   ELSE stats
       IN  ExtractFrom(next, Tail(raw_stats))

\* A dict of the listed stats alone: no defaults, no filter.
_extract_stats_listed(raw_stats) ==
  [k \in {raw_stats[i].stat : i \in 1..Len(raw_stats)} |->
     raw_stats[CHOOSE i \in 1..Len(raw_stats) :
                 /\ raw_stats[i].stat = k
                 /\ \A j \in 1..Len(raw_stats) : raw_stats[j].stat = k => j <= i].base_stat]

_extract_stats(raw_stats) == ExtractFrom([k \in STAT_KEYS |-> 0], raw_stats)

LowerAll(xs) == [i \in 1..Len(xs) |-> lower(xs[i])]

\* sanitize_pokemon_data raises ValueError when the payload has no "id".
SanitizeRaises(raw) == IsNone(raw.id)

sanitize_keeps_case(raw) ==
  [name            |-> raw.name,
   pokedex_number  |-> Val(raw.id),
   height_m        |-> DivTen(GetOrZero(raw, "height")),
   weight_kg       |-> DivTen(GetOrZero(raw, "weight")),
   base_experience |-> raw.base_experience,
   stats           |-> _extract_stats(raw.stats),
   types           |-> LowerAll(raw.types),
   abilities       |-> LowerAll(raw.abilities)]

sanitize_pokemon_data(raw) ==
  [name            |-> lower(raw.name),
   pokedex_number  |-> Val(raw.id),
   height_m        |-> DivTen(GetOrZero(raw, "height")),
   weight_kg       |-> DivTen(GetOrZero(raw, "weight")),
   base_experience |-> raw.base_experience,
   stats           |-> _extract_stats(raw.stats),
   types           |-> LowerAll(raw.types),
   abilities       |-> LowerAll(raw.abilities)]

\* The columns of table pokemon besides the primary key (models/pokemon.py
\* declares no others); _upsert assigns each of them from the payload.
DataFields == {"name", "pokedex_number", "height_m", "weight_kg",
               "base_experience", "stats", "types", "abilities"}
\* A row without its primary key.
DataOf(row) == [f \in DataFields |-> row[f]]

(***************************************************************************)
(* The names and the upstream of the model.                                *)
(***************************************************************************)
pikachu  == <<"p","i","k","a","c","h","u">>
mrmime   == <<"m","r","m","i","m","e">>
mr_mime  == <<"m","r","-","m","i","m","e">>

electric == <<"e","l","e","c","t","r","i","c">>
Electric == <<"E","l","e","c","t","r","i","c">>
fairy    == <<"f","a","i","r","y">>
static   == <<"s","t","a","t","i","c">>

\* Names a caller hands to ingest_many.
InputNames == {pikachu, mrmime}

FullStats ==
  << [stat |-> "hp", base_stat |-> 35], [stat |-> "attack", base_stat |-> 55],
     [stat |-> "defense", base_stat |-> 40], [stat |-> "special-attack", base_stat |-> 50],
     [stat |-> "special-defense", base_stat |-> 50], [stat |-> "speed", base_stat |-> 90] >>

\* Upstream payloads for GET /pokemon/{slug}; the payload's name is the slug
\* (tests/test_handlers/test_pokeapi_client.py: "mrmime" fetches "mr-mime").
\* PayloadA is a full payload; PayloadB is a later revision of the resource:
\* no base_experience, no "speed" entry, an unknown stat, another weight;
\* PayloadM lacks the numeric id.
PayloadA(slug) ==
  [name |-> slug, id |-> Some(25), height |-> 5, weight |-> 65,
   base_experience |-> Some(112), stats |-> FullStats,
   types |-> <<Electric>>, abilities |-> <<static>>]

PayloadB(slug) ==
  [name |-> slug, id |-> Some(25), height |-> 4, weight |-> 70,
   base_experience |-> None,
   stats |-> << [stat |-> "hp", base_stat |-> 36], [stat |-> "accuracy", base_stat |-> 7] >>,
   types |-> <<electric, fairy>>, abilities |-> <<>>]

PayloadM(slug) == [PayloadA(slug) EXCEPT !.id = None]

\* The payload keys the unit conversion reads.
UnitKeys == {"height", "weight"}

\* PayloadC has height 10 dm and weight 100 hg; PayloadH has neither key.
PayloadC(slug) == [PayloadA(slug) EXCEPT !.height = 10, !.weight = 100]

PayloadH(slug) ==
  [f \in DOMAIN PayloadA(slug) \ UnitKeys |-> PayloadA(slug)[f]]

\* The revisions "A", "B", "C", "H" and "M" of a resource the upstream may
\* serve.
Payload(rev, slug) ==
  CASE rev = "A" -> PayloadA(slug)
    [] rev = "B" -> PayloadB(slug)
    [] rev = "C" -> PayloadC(slug)
    [] rev = "H" -> PayloadH(slug)
    [] OTHER     -> PayloadM(slug)

\* Sets of revisions an upstream serves.
RevsAB  == {"A", "B"}
RevsAM  == {"A", "M"}
RevsABM == {"A", "B", "M"}
RevsACH == {"A", "C", "H"}

\* Status codes of responses that are not ok.
ErrorStatuses == {404, 429, 500}

\* What requests.get can do for GET /pokemon/{slug}: raise a
\* RequestException (timeout, connection or DNS failure), or return a
\* response: 404, another status that is not ok, or 200 with the resource in
\* one of the revisions revs as its JSON body.
UpstreamAnswers(slug, revs) ==
  {[failed |-> TRUE, url |-> slug, status |-> 0, body |-> None]}
  \cup {[failed |-> FALSE, url |-> slug, status |-> st, body |-> None] : st \in ErrorStatuses}
  \cup {[failed |-> FALSE, url |-> slug, status |-> 200, body |-> Some(Payload(rev, slug))] :
          rev \in revs}

\* requests.Response.ok: the status is below 400.
ResponseOk(resp) == resp.status < 400

Returns(data) == [raised |-> "", cause |-> "", data |-> data]
Raises(e, cause) == [raised |-> e, cause |-> cause, data |-> None]

\* _try_fetch that answers None for every status that is not ok.
_try_fetch_none_on_status(resp) ==
  IF resp.failed THEN Raises("PokeAPIError", "network error")
  ELSE IF ~ResponseOk(resp) THEN Returns(None)
  ELSE Returns(resp.body)

\* PokeAPIClient._try_fetch on what requests.get did.
_try_fetch(resp) ==
  IF resp.failed THEN Raises("PokeAPIError", "network error")
  ELSE IF resp.status = 404 THEN Returns(None)
  ELSE IF ~ResponseOk(resp) THEN Raises("PokeAPIError", "status")
  ELSE Returns(resp.body)

\* PokeAPIClient.get_pokemon_by_name from line 134 on: data is None raises
\* PokemonNotFoundError, whatever _try_fetch raised passes through.
get_pokemon_by_name(resp) ==
  LET t == _try_fetch(resp)
  IN  IF t.raised = "" /\ t.data = None
      THEN Raises("PokemonNotFoundError", "not found for input")
      ELSE t

\* A row of table pokemon as an earlier ingestion stored it.
SeedRow(id, name) ==
  [id |-> id, name |-> name, pokedex_number |-> 25,
   height_m |-> DivTen(4), weight_kg |-> DivTen(60),
   base_experience |-> Some(112), stats |-> _extract_stats(FullStats),
   types |-> <<electric>>, abilities |-> <<static>>]

(***************************************************************************)
(* State.                                                                  *)
(*   store   the committed rows of table pokemon                           *)
(*   txn     the open write transaction: its owner and the rows it sees;   *)
(*           the engine serialises writers, so there is at most one        *)
(*   cache   the Flask-Caching entries: key, value, expiry                 *)
(*   cacheOk whether the cache extension answers (it raises otherwise)     *)
(*   now     the clock                                                     *)
(*   nextId  the next fresh primary key (uuid4 never repeats)              *)
(*   call    per caller of ingest_many: its position, arguments, result    *)
(*           lists, SQLAlchemy session and a record of what it did         *)
(*   sched   the APScheduler job: ticks fired, ticks skipped, per job      *)
(*           instance its position, and what left refresh_stale_job        *)
(*   hist    the ingest_many calls that requests have completed            *)
(*   reply   the read request answered last: what was asked, the items of  *)
(*           its JSON answer                                               *)
(***************************************************************************)
VARIABLES store, txn, cache, cacheOk, now, nextId, call, sched, hist, reply

vars == <<store, txn, cache, cacheOk, now, nextId, call, sched, hist, reply>>

\* Request handlers that may be inside ingest_many.
RequestIds == {"r1", "r2"}

EmptyResults == [ok |-> <<>>, not_found |-> <<>>, errors |-> <<>>]

\* A SQLAlchemy session: "deactive" once a flush failed (every later use
\* raises PendingRollbackError); pending is the one object _upsert added or
\* changed since the last flush; stamped is the objects of this session on
\* which _upsert set the attribute refreshed_at, with the time it set.
\* Pokemon maps no column refreshed_at, so the attribute lives on the Python
\* object alone: it is never written to the table and never loaded from it.
NewSession == [state |-> "active", pending |-> None, stamped |-> {}]

IdleCall ==
  [pc |-> "idle", names |-> <<>>, i |-> 1, results |-> EmptyResults,
   raw |-> None, sess |-> NewSession, log |-> <<>>, pre |-> {}, t0 |-> 0,
   exc |-> ""]

(***************************************************************************)
(* The result lists of ingest_many.                                        *)
(***************************************************************************)
AppendOkDropped(results, record_name) == results

\* results["ok"].append(existing.name) / results["ok"].append(data["name"])
AppendOk(results, record_name) ==
  [results EXCEPT !.ok = Append(@, record_name)]

AppendNotFoundAsError(results, name) ==
  [results EXCEPT !.errors = Append(@, [name |-> name, error |-> "PokemonNotFoundError"])]

\* except PokemonNotFoundError: results["not_found"].append(name)
AppendNotFound(results, name) ==
  [results EXCEPT !.not_found = Append(@, name)]

AppendErrorDropped(results, name, e) == results

\* except Exception as e: results["errors"].append({"name": name, "error": str(e)})
AppendError(results, name, e) ==
  [results EXCEPT !.errors = Append(@, [name |-> name, error |-> e])]

(***************************************************************************)
(* The store as a session sees it.                                         *)
(***************************************************************************)
OwnsTxn(c) == IF txn = None THEN FALSE ELSE Val(txn).owner = c
View(c) == IF OwnsTxn(c) THEN Val(txn).rows ELSE store
\* A flush that writes needs the write lock.
LockFree(c) == IF txn = None THEN TRUE ELSE Val(txn).owner = c

\* The mapped attributes _upsert assigns (lines 86-101), as a row.
MkRow(id, data) ==
  [id |-> id, name |-> data.name, pokedex_number |-> data.pokedex_number,
   height_m |-> data.height_m, weight_kg |-> data.weight_kg,
   base_experience |-> data.base_experience, stats |-> data.stats,
   types |-> data.types, abilities |-> data.abilities]

\* UPDATE pokemon SET <the changed columns> WHERE id = row.id
SetCols(row, cols, vals) ==
  [f \in DOMAIN row |-> IF f \in cols THEN vals[f] ELSE row[f]]

\* The unit of work emits an UPDATE for the attributes whose value differs
\* from the one the session loaded, and for no others.
ChangedCols(obj, vals) == {f \in DataFields : vals[f] # obj[f]}

\* name is UNIQUE: an INSERT of a name the table holds fails.
FlushFails(rows, op) ==
  op.kind = "insert" /\ \E r \in rows : r.name = op.vals.name

FlushRowsReinsert(rows, op, id) ==
  IF op.kind = "insert" THEN rows \cup {[op.vals EXCEPT !.id = id]}
  ELSE {IF r.id = op.id THEN [op.vals EXCEPT !.id = id] ELSE r : r \in rows}

FlushRows(rows, op, id) ==
  IF op.kind = "insert" THEN rows \cup {[op.vals EXCEPT !.id = id]}
  ELSE {IF r.id = op.id THEN SetCols(r, op.cols, op.vals) ELSE r : r \in rows}

(***************************************************************************)
(* IngestService._is_stale. An object is its Python attributes that are    *)
(* not mapped columns: a function whose domain holds "refreshed_at" only   *)
(* when _upsert set it on this very object.                                *)
(***************************************************************************)
NoAttrs == [a \in {} |-> None]
Stamped(t) == [a \in {"refreshed_at"} |-> Some(t)]

\* Line 118, pokemon.refreshed_at, raises AttributeError.
IsStaleRaises(pokemon) == "refreshed_at" \notin DOMAIN pokemon

_is_stale(pokemon, t) ==
  LET refreshed == pokemon["refreshed_at"]
  IN  \/ IsNone(refreshed)
      \/ Val(refreshed) < t - STALE_TTL_MINUTES

(***************************************************************************)
(* handlers/cache.py: cache_get and cache_set never raise.                 *)
(***************************************************************************)
CacheLive(key, t) == {e \in cache : e.key = key /\ e.expires > t}

\* A cache that never answers.
cache_get_miss(key, t) == None

\* None on a miss, on an expired entry and when the cache raises.
cache_get(key, t) ==
  IF cacheOk /\ CacheLive(key, t) # {}
  THEN Some((CHOOSE e \in CacheLive(key, t) : TRUE).value)
  ELSE None

cache_set_unguarded(key, value, timeout, t) ==
  {e \in cache : e.key # key}
    \cup {[key |-> key, value |-> value, expires |-> t + timeout]}

cache_set(key, value, timeout, t) ==
  IF cacheOk
  THEN {e \in cache : e.key # key}
         \cup {[key |-> key, value |-> value, expires |-> t + timeout]}
  ELSE cache


(***************************************************************************)
(* IngestService.ingest_many, one step per access to shared state.         *)
(***************************************************************************)
\* The loop moves to the next name, or to db.session.commit() after the last.
NextName(cr) ==
  [cr EXCEPT !.i = @ + 1, !.raw = None,
             !.pc = IF cr.i + 1 > Len(cr.names) THEN "commit" ELSE "lookup"]

Logged(cr, event) == [cr EXCEPT !.log = Append(@, event)]

\* The object a query returns for a row. The identity map holds its objects
\* weakly: the object _upsert stamped is returned again if it is still
\* alive, else the row is loaded into a new object, which has no attribute
\* refreshed_at. Which of the two happens is up to the garbage collector.
Loaded(stamped, row) ==
  {NoAttrs} \cup {Stamped(s.at) : s \in {x \in stamped : x.name = row.name}}

\* ingest_many(names) is entered: an empty result, a session of its own.
StartIngest(c, names) ==
  /\ call[c].pc = "idle"
  /\ call' = [call EXCEPT ![c] =
                [IdleCall EXCEPT !.pc = IF names = <<>> THEN "commit" ELSE "lookup",
                                 !.names = names, !.pre = {r.name : r \in store},
                                 !.t0 = now]]
  /\ UNCHANGED <<store, txn, cache, cacheOk, now, nextId, sched, hist, reply>>

\* Lines 48-52: Pokemon.query.filter_by(name=str(name).lower()).one_or_none()
\* autoflushes the pending object and reads the row; _is_stale(existing)
\* reads existing.refreshed_at; a fresh record is recorded as ok. Whatever
\* is raised is caught for this name (lines 69-71).
Lookup(c) ==
  LET cr   == call[c]
      name == cr.names[cr.i]
      op   == Val(cr.sess.pending)
      flushing == cr.sess.pending # None
      fails == IF flushing THEN FlushFails(View(c), op) ELSE FALSE
      rows == IF flushing THEN FlushRows(View(c), op, nextId) ELSE View(c)
      found == {r \in rows : r.name = lower(name)}
      row  == CHOOSE r \in found : TRUE
      sess2 == [cr.sess EXCEPT !.pending = None]
  IN
  /\ cr.pc = "lookup"
  /\ IF cr.sess.state = "active" /\ flushing THEN LockFree(c) ELSE TRUE
  /\ IF cr.sess.state = "deactive"
     THEN /\ call' = [call EXCEPT ![c] =
                NextName([cr EXCEPT !.results = AppendError(@, name, "PendingRollbackError")])]
          /\ UNCHANGED <<txn, nextId>>
     ELSE IF fails
     THEN \* a failed flush rolls the transaction back and deactivates the session
          /\ call' = [call EXCEPT ![c] =
                NextName([cr EXCEPT
                  !.results = AppendError(@, name, "IntegrityError"),
                  !.sess = [@ EXCEPT !.state = "deactive", !.pending = None]])]
          /\ txn' = None
          /\ UNCHANGED nextId
     ELSE /\ txn' = IF flushing THEN Some([owner |-> c, rows |-> rows]) ELSE txn
          /\ nextId' = IF flushing /\ op.kind = "insert" THEN nextId + 1 ELSE nextId
          /\ IF found = {}
             THEN call' = [call EXCEPT ![c] = [cr EXCEPT !.sess = sess2, !.pc = "cache_get"]]
             ELSE \E existing \in Loaded(cr.sess.stamped, row) :
                    call' = [call EXCEPT ![c] =
                      IF IsStaleRaises(existing)
                      THEN NextName(Logged([cr EXCEPT !.sess = sess2,
                                              !.results = AppendError(@, name, "AttributeError")],
                                           "attr_error"))
                      ELSE IF ~ _is_stale(existing, now)
                      THEN NextName(Logged([cr EXCEPT !.sess = sess2,
                                              !.results = AppendOk(@, row.name)],
                                           "fresh"))
                      ELSE [cr EXCEPT !.sess = sess2, !.pc = "cache_get"]]
  /\ UNCHANGED <<store, cache, cacheOk, now, sched, hist, reply>>

\* Lines 55-58: the cache is asked for the payload.
CacheGet(c) ==
  LET cr   == call[c]
      name == cr.names[cr.i]
      raw  == cache_get(CacheKey(name), now)
  IN
  /\ cr.pc = "cache_get"
  /\ call' = [call EXCEPT ![c] =
        IF raw = None
        THEN Logged([cr EXCEPT !.pc = "fetch"], "cache_miss")
        ELSE Logged([cr EXCEPT !.pc = "upsert", !.raw = raw], "cache_hit")]
  /\ UNCHANGED <<store, txn, cache, cacheOk, now, nextId, sched, hist, reply>>

\* A fetch that asks again after a failure that is not a not-found.
FetchRespRetry(c, resp) ==
  LET cr   == call[c]
      name == cr.names[cr.i]
      got  == get_pokemon_by_name(resp)
  IN
  /\ cr.pc = "fetch"
  /\ Len(cr.log) < 6
  /\ call' = [call EXCEPT ![c] =
       CASE got.raised = "PokemonNotFoundError" ->
              NextName(Logged([cr EXCEPT !.results = AppendNotFound(@, name)],
                              "fetch_404"))
         [] got.raised # "" /\ got.raised # "PokemonNotFoundError" ->
              Logged(cr, "fetch_error")
         [] OTHER ->
              Logged([cr EXCEPT !.pc = "upsert", !.raw = got.data], "fetch_ok")]
  /\ cache' = IF got.raised = ""
              THEN cache_set(CacheKey(name), Val(got.data), CACHE_DEFAULT_TIMEOUT, now)
              ELSE cache
  /\ UNCHANGED <<store, txn, cacheOk, now, nextId, sched, hist, reply>>

\* Lines 59-61 and 66-71: one GET for the resolved slug; a payload is put
\* in the cache, a 404 and any other failure end this name.
FetchResp(c, resp) ==
  LET cr   == call[c]
      name == cr.names[cr.i]
      got  == get_pokemon_by_name(resp)
  IN
  /\ cr.pc = "fetch"
  /\ call' = [call EXCEPT ![c] =
       CASE got.raised = "PokemonNotFoundError" ->
              NextName(Logged([cr EXCEPT !.results = AppendNotFound(@, name)],
                              "fetch_404"))
         [] got.raised # "" /\ got.raised # "PokemonNotFoundError" ->
              NextName(Logged([cr EXCEPT !.results = AppendError(@, name, got.raised)],
                              "fetch_error"))
         [] OTHER ->
              Logged([cr EXCEPT !.pc = "upsert", !.raw = got.data], "fetch_ok")]
  /\ cache' = IF got.raised = ""
              THEN cache_set(CacheKey(name), Val(got.data), CACHE_DEFAULT_TIMEOUT, now)
              ELSE cache
  /\ UNCHANGED <<store, txn, cacheOk, now, nextId, sched, hist, reply>>

Fetch(c, revs) ==
  /\ call[c].pc = "fetch"
  /\ \E resp \in UpstreamAnswers(Slug(call[c].names[call[c].i]), revs) : FetchResp(c, resp)

\* Lines 63-65 and 76-106: sanitize the payload, then _upsert: query by the
\* payload's name, create the object or overwrite its mapped attributes, set
\* the plain attribute refreshed_at and db.session.add(p); nothing is
\* written until the next flush. A failure is caught for this name.
Upsert(c) ==
  LET cr    == call[c]
      name  == cr.names[cr.i]
      raw   == Val(cr.raw)
      data  == sanitize_pokemon_data(raw)
      vals  == MkRow(0, data)
      found == {r \in View(c) : r.name = data.name}
      p     == CHOOSE r \in found : TRUE
      cols  == ChangedCols(p, vals)
      op    == IF found = {}
               THEN Some([kind |-> "insert", id |-> 0, cols |-> DataFields, vals |-> vals])
               ELSE IF cols = {} THEN None
               ELSE Some([kind |-> "update", id |-> p.id, cols |-> cols, vals |-> vals])
      stamped == {s \in cr.sess.stamped : s.name # data.name}
                   \cup {[name |-> data.name, at |-> now]}
  IN
  /\ cr.pc = "upsert"
  /\ call' = [call EXCEPT ![c] =
        IF SanitizeRaises(raw)
        THEN NextName(Logged([cr EXCEPT !.results = AppendError(@, name, "ValueError")],
                             "sanitize_error"))
        ELSE NextName(Logged([cr EXCEPT !.sess = [@ EXCEPT !.pending = op, !.stamped = stamped],
                                        !.results = AppendOk(@, data.name)],
                             IF found = {} THEN "insert" ELSE "update"))]
  /\ UNCHANGED <<store, txn, cache, cacheOk, now, nextId, sched, hist, reply>>

\* Line 73: db.session.commit() flushes what is pending and commits; what
\* it raises leaves ingest_many.
Commit(c) ==
  LET cr   == call[c]
      op   == Val(cr.sess.pending)
      flushing == cr.sess.pending # None
      fails == IF flushing THEN FlushFails(View(c), op) ELSE FALSE
      rows == IF flushing THEN FlushRows(View(c), op, nextId) ELSE View(c)
      exc  == IF cr.sess.state = "deactive" THEN "PendingRollbackError"
              ELSE IF fails THEN "IntegrityError"
              ELSE ""
  IN
  /\ cr.pc = "commit"
  /\ IF cr.sess.state = "active" /\ flushing THEN LockFree(c) ELSE TRUE
  /\ IF exc # ""
     THEN /\ call' = [call EXCEPT ![c] = [cr EXCEPT !.pc = "raised", !.exc = exc]]
          /\ txn' = IF OwnsTxn(c) THEN None ELSE txn
          /\ UNCHANGED <<store, nextId>>
     ELSE /\ call' = [call EXCEPT ![c] =
                        [cr EXCEPT !.pc = "done", !.sess = [@ EXCEPT !.pending = None]]]
          /\ store' = rows
          /\ txn' = IF flushing \/ OwnsTxn(c) THEN None ELSE txn
          /\ nextId' = IF flushing /\ op.kind = "insert" THEN nextId + 1 ELSE nextId
  /\ UNCHANGED <<cache, cacheOk, now, sched, hist, reply>>

\* Line 73 when the database refuses the commit for a reason of its own (the
\* file is locked past the busy timeout, the disk is full): commit() raises
\* OperationalError and the transaction, with every row the call flushed for
\* earlier names, is rolled back (the request's handle_db_error rolls back
\* again).
CommitFails(c) ==
  LET cr == call[c]
  IN
  /\ cr.pc = "commit"
  /\ cr.sess.state = "active"
  /\ call' = [call EXCEPT ![c] = [cr EXCEPT !.pc = "raised", !.exc = "OperationalError"]]
  /\ txn' = IF OwnsTxn(c) THEN None ELSE txn
  /\ UNCHANGED <<store, cache, cacheOk, now, nextId, sched, hist, reply>>

\* The request handler has its answer (or its exception); the application
\* context ends and the scoped session is removed.
Return(c) ==
  /\ call[c].pc \in {"done", "raised"}
  /\ hist' = Append(hist, [names |-> call[c].names, pc |-> call[c].pc,
                            results |-> call[c].results, log |-> call[c].log,
                            t0 |-> call[c].t0])
  /\ call' = [call EXCEPT ![c] = IdleCall]
  /\ UNCHANGED <<store, txn, cache, cacheOk, now, nextId, sched, reply>>

\* Time passes.
TimePasses ==
  /\ now < MaxTime
  /\ now' = now + 1
  /\ UNCHANGED <<store, txn, cache, cacheOk, nextId, call, sched, hist, reply>>

(***************************************************************************)
(* handlers/scheduler.py                                                   *)
(***************************************************************************)
\* Worker threads of the scheduler's executor that can run the job.
JobIds == {"j1", "j2"}

\* last is what the most recent call of _select_stale_names came to.
SchedOff ==
  [started |-> FALSE, ticks |-> 0, skipped |-> 0, caught |-> 0,
   escaped |-> FALSE, jobs |-> [j \in JobIds |-> "idle"], last |-> None]

Running == {j \in JobIds : sched.jobs[j] # "idle"}

\* start_scheduler (lines 63-99): one BackgroundScheduler per app; a second
\* call finds app.extensions["apscheduler"] and returns.
StartScheduler ==
  /\ sched' = [sched EXCEPT !.started = TRUE]
  /\ UNCHANGED <<store, txn, cache, cacheOk, now, nextId, call, hist, reply>>

TickRunsAlways ==
  /\ sched.started
  /\ sched.ticks < MaxTicks
  /\ Running # JobIds
  /\ \E j \in JobIds \ Running :
       sched' = [sched EXCEPT !.ticks = @ + 1, !.jobs[j] = "select"]
  /\ UNCHANGED <<store, txn, cache, cacheOk, now, nextId, call, hist, reply>>

\* The interval trigger fires. With max_instances instances of the job
\* running the run is skipped (and, the job being coalesced, not kept for
\* later); else refresh_stale_job is submitted to a worker thread.
Tick ==
  /\ sched.started
  /\ sched.ticks < MaxTicks
  /\ IF Cardinality(Running) >= max_instances
     THEN sched' = [sched EXCEPT !.ticks = @ + 1, !.skipped = @ + 1]
     ELSE \E j \in JobIds \ Running :
            sched' = [sched EXCEPT !.ticks = @ + 1, !.jobs[j] = "select"]
  /\ UNCHANGED <<store, txn, cache, cacheOk, now, nextId, call, hist, reply>>

CaughtIfUpstream(e) == e \in {"PokeAPIError", "PokemonNotFoundError"}

\* Line 59: except Exception catches every exception the tick can raise.
Caught(e) == TRUE

\* _select_stale_names (lines 14-32): the filter is built from
\* Pokemon.refreshed_at, an attribute the class does not have
\* (models/pokemon.py maps id, name, pokedex_number, height_m, weight_kg,
\* base_experience, stats, types and abilities), so line 27 raises
\* AttributeError before any row is read and no name is returned.
_select_stale_names(rows) == [raised |-> "AttributeError", names |-> <<>>]

\* refresh_stale_job, lines 44-52 and 59: the selection is called; what it
\* raises is caught (were it not, it would leave the job function); with no
\* names the job returns, with names it goes on to ingest_many.
JobSelect(j) ==
  LET sel == _select_stale_names(store)
  IN
  /\ sched.jobs[j] = "select"
  /\ sched' =
       IF sel.raised # ""
       THEN IF Caught(sel.raised)
            THEN [sched EXCEPT !.jobs[j] = "except", !.last = Some(sel)]
            ELSE [sched EXCEPT !.jobs[j] = "idle", !.last = Some(sel), !.escaped = TRUE]
       ELSE [sched EXCEPT !.jobs[j] = IF sel.names = <<>> THEN "idle" ELSE "ingest",
                          !.last = Some(sel)]
  /\ UNCHANGED <<store, txn, cache, cacheOk, now, nextId, call, hist, reply>>

\* Line 60: the error is logged and the job function returns.
JobEnd(j) ==
  /\ sched.jobs[j] = "except"
  /\ sched' = [sched EXCEPT !.jobs[j] = "idle", !.caught = @ + 1]
  /\ UNCHANGED <<store, txn, cache, cacheOk, now, nextId, call, hist, reply>>

(***************************************************************************)
(* Spec: one request calls ingest_many once.                               *)
(***************************************************************************)
RECURSIVE SeqsUpTo(_, _)
SeqsUpTo(S, n) ==
  IF n = 0 THEN {<<>>}
  ELSE SeqsUpTo(S, n - 1) \cup {Append(q, x) : q \in {t \in SeqsUpTo(S, n - 1) : Len(t) = n - 1}, x \in S}

Batches == SeqsUpTo(InputNames, MaxBatch)

\* The table when the process starts: at most one row per name (name is
\* UNIQUE).
\* The names of the rows the table can start with.
SeedNames == {pikachu, mr_mime}

SeedStores ==
  {P \cup M : P \in {{}, {SeedRow(1, pikachu)}}, M \in {{}, {SeedRow(2, mr_mime)}}}

Init ==
  /\ store \in SeedStores
  /\ txn = None
  /\ cache = {}
  /\ cacheOk \in BOOLEAN
  /\ now = 0
  /\ nextId = 3
  /\ call = [c \in {"r1"} |-> IdleCall]
  /\ sched = SchedOff
  /\ hist = <<>>
  /\ reply = None

Next ==
  \/ hist = <<>> /\ \E names \in Batches : StartIngest("r1", names)
  \/ Lookup("r1")
  \/ CacheGet("r1")
  \/ Fetch("r1", RevsAM)
  \/ Upsert("r1")
  \/ Commit("r1")
  \/ Return("r1")
  \/ TimePasses

Spec == Init /\ [][Next]_vars

(***************************************************************************)
(* Properties of one ingest_many call (Spec).                              *)
(***************************************************************************)
Count(seq, x) == Cardinality({i \in 1..Len(seq) : seq[i] = x})
ErrorNames(results) == [i \in 1..Len(results.errors) |-> results.errors[i].name]
Range(seq) == {seq[i] : i \in 1..Len(seq)}
Returned(c) == call[c].pc = "done"
\* The three lists of the result of ingest_many.
ResultLists == {"ok", "not_found", "errors"}

\* The log events of an _upsert that reached db.session.add.
WriteEvents == {"insert", "update"}

StoredNames == {r.name : r \in store}

\* The names an ok entry can carry for a requested name: the name of the
\* fresh record found under lower(name), or the lowercase name of the
\* payload the upstream serves for the name's slug.
OkNames(name) == {lower(name), lower(Slug(name))}

\* C1 (as the code has it): when ingest_many(names) returns, the three lists
\* together hold exactly one entry per requested occurrence of a name;
\* not_found and errors entries carry the requested name, an ok entry carries
\* the name of the stored record (found fresh or upserted), which is not the
\* requested name when that name is an alias.
C1_OneEntryPerName ==
  \A c \in DOMAIN call :
    Returned(c) =>
      LET cr == call[c]
          R  == cr.results
      IN  /\ Len(R.ok) + Len(R.not_found) + Len(R.errors) = Len(cr.names)
          /\ Range(R.not_found) \cup Range(ErrorNames(R)) \subseteq Range(cr.names)
          /\ \A n \in Range(cr.names) :
                Count(R.not_found, n) + Count(ErrorNames(R), n)
                  + Cardinality({i \in 1..Len(R.ok) : R.ok[i] \in OkNames(n)})
                = Count(cr.names, n)

C1_Witness ==
  /\ Returned("r1")
  /\ call["r1"].names = <<mrmime, pikachu>>
  /\ call["r1"].results.ok = <<mr_mime>>
  /\ call["r1"].results.not_found = <<pikachu>>

\* C1 as stated: every requested name is itself in exactly one of the lists.
C1_RequestedNameInOneList ==
  \A c \in DOMAIN call :
    Returned(c) =>
      LET R == call[c].results
      IN  \A n \in Range(call[c].names) :
            Cardinality({l \in ResultLists :
                           n \in (CASE l = "ok" -> Range(R.ok)
                                    [] l = "not_found" -> Range(R.not_found)
                                    [] OTHER -> Range(ErrorNames(R)))}) = 1

\* The call was ingest_many([n]) and went through event ev for n.
Single(c, ev) ==
  /\ Returned(c)
  /\ Len(call[c].names) = 1
  /\ \E i \in 1..Len(call[c].log) : call[c].log[i] = ev

\* C2: for a name n with no record, ingest_many([n]) with a well-formed
\* payload puts n in ok (under the name its record is stored by, see C1) and
\* creates exactly one stored record, whose refreshed_at is set (non-null)
\* and whose stats have the six canonical keys.
C2_CreatesRefreshedRecord ==
  \A c \in DOMAIN call :
    LET n  == call[c].names[1]
        nm == lower(Slug(n))
    IN  (Single(c, "fetch_ok") /\ call[c].log[Len(call[c].log)] # "sanitize_error"
           /\ call[c].pre \cap OkNames(n) = {})
        => /\ call[c].results = [EmptyResults EXCEPT !.ok = <<nm>>]
           /\ Cardinality(store) = Cardinality(call[c].pre) + 1
           /\ \A r \in {x \in store : x.name = nm} :
                 /\ DOMAIN r.stats = STAT_KEYS
                 /\ "refreshed_at" \in DOMAIN r
                 /\ r["refreshed_at"] # None

\* C4: when the upstream answers not-found for n, ingest_many([n]) returns n
\* in not_found and in no other list, and the store holds the records it
\* held before: none is created.
C4_NotFoundCreatesNothing ==
  \A c \in DOMAIN call :
    Single(c, "fetch_404")
    => /\ call[c].results = [EmptyResults EXCEPT !.not_found = <<call[c].names[1]>>]
       /\ StoredNames = call[c].pre
       /\ Cardinality(store) = Cardinality(call[c].pre)

C4_Witness ==
  /\ Single("r1", "fetch_404")
  /\ call["r1"].names = <<mrmime>>
  /\ call["r1"].results.not_found = <<mrmime>>
  /\ store = {}

(***************************************************************************)
(* SpecTwice: requests one after another, each calling ingest_many([n]).   *)
(***************************************************************************)
NextTwice ==
  \/ Len(hist) < MaxCalls /\ \E n \in InputNames : StartIngest("r1", <<n>>)
  \/ Lookup("r1")
  \/ CacheGet("r1")
  \/ Fetch("r1", {"A"})
  \/ Upsert("r1")
  \/ Commit("r1")
  \/ Return("r1")
  \/ TimePasses

SpecTwice == Init /\ [][NextTwice]_vars

CacheOrFetchEvents == {"cache_hit", "cache_miss", "fetch_ok", "fetch_404", "fetch_error"}

\* C3: when ingest_many([n]) has put n in ok and is called again within the
\* staleness TTL, the second call does no cache lookup or write and no
\* upstream fetch, and returns n in ok (under its record's name, see C1).
C3_SecondCallShortCircuits ==
  (/\ Len(hist) = 1
   /\ hist[1].pc = "done"
   /\ Len(hist[1].results.ok) = 1
   /\ Returned("r1")
   /\ call["r1"].names = hist[1].names
   /\ now - hist[1].t0 <= STALE_TTL_MINUTES)
  => /\ Range(call["r1"].log) \cap CacheOrFetchEvents = {}
     /\ Len(call["r1"].results.ok) = 1
     /\ call["r1"].results.ok[1] \in OkNames(call["r1"].names[1])
     /\ call["r1"].results.not_found = <<>>
     /\ call["r1"].results.errors = <<>>

(***************************************************************************)
(* SpecConc: two requests inside ingest_many at the same time.             *)
(***************************************************************************)
InitConc ==
  /\ store \in SeedStores
  /\ txn = None
  /\ cache = {}
  /\ cacheOk \in BOOLEAN
  /\ now = 0
  /\ nextId = 3
  /\ call = [c \in RequestIds |-> IdleCall]
  /\ sched = SchedOff
  /\ hist = <<>>
  /\ reply = None

NextConc ==
  \/ \E names \in Batches \ {<<>>} : StartIngest("r1", names)
  \/ \E n \in InputNames : StartIngest("r2", <<n>>)
  \/ \E c \in RequestIds :
       \/ Lookup(c)
       \/ CacheGet(c)
       \/ Fetch(c, RevsAB)
       \/ Upsert(c)
       \/ Commit(c)

SpecConc == InitConc /\ [][NextConc]_vars

Finished(c) == call[c].pc \in {"done", "raised"}
CrossNameErrors == {"IntegrityError", "PendingRollbackError"}

\* C5: no failure of one name's steps leaves ingest_many as an exception,
\* and no name is recorded with a failure that belongs to another name's
\* steps: a later name is classified by its own lookup, cache access, fetch,
\* normalization and upsert alone.
C5_FailuresStayWithTheirName ==
  \A c \in DOMAIN call :
    /\ call[c].pc # "raised"
    /\ \A i \in 1..Len(call[c].results.errors) :
         call[c].results.errors[i].error \notin CrossNameErrors

\* Both requests called ingest_many([n]) for the same n and both recorded an
\* upsert of its record.
BothUpserted ==
  /\ \A c \in RequestIds : Finished(c) /\ Len(call[c].names) = 1
  /\ call["r1"].names = call["r2"].names
  /\ \A c \in RequestIds : Len(call[c].results.ok) = 1
  /\ \A c \in RequestIds : Range(call[c].log) \cap WriteEvents # {}

\* The normalized forms of the payloads the two calls were served.
NormalizedPayloads(n) ==
  {sanitize_pokemon_data(Payload(rev, Slug(n))) : rev \in RevsAB}

\* C6: after two concurrent ingest_many calls for the same name, the stored
\* record equals the normalized form of one of the two payloads, never a mix
\* of the fields of both.
C6_NoMixedRecord ==
  BothUpserted =>
    \A r \in {x \in store : x.name = call["r1"].results.ok[1]} :
      DataOf(r) \in NormalizedPayloads(call["r1"].names[1])

\* C7: when two ingest_many calls upsert the same name concurrently, neither
\* fails because of the other, and afterwards exactly one record with that
\* name exists.
C7_LastWriteWinsNoConflict ==
  (/\ \A c \in RequestIds : Finished(c) /\ Len(call[c].names) = 1
   /\ call["r1"].names = call["r2"].names
   /\ \A c \in RequestIds : Range(call[c].log) \cap WriteEvents # {})
  => /\ \A c \in RequestIds : call[c].pc = "done" /\ call[c].results.errors = <<>>
     /\ Cardinality({x \in store : x.name \in OkNames(call["r1"].names[1])}) = 1

(***************************************************************************)
(* SpecSched: the background scheduler beside one request.                 *)
(***************************************************************************)
NextSched ==
  \/ StartScheduler
  \/ Tick
  \/ \E j \in JobIds : JobSelect(j)
  \/ \E j \in JobIds : JobEnd(j)
  \/ hist = <<>> /\ \E n \in InputNames : StartIngest("r1", <<n>>)
  \/ Lookup("r1")
  \/ CacheGet("r1")
  \/ Fetch("r1", {"A"})
  \/ Upsert("r1")
  \/ Commit("r1")
  \/ Return("r1")

SpecSched == Init /\ [][NextSched]_vars

\* C8: at most one execution of the refresh job is in flight; a tick that
\* fires while one is running is counted as skipped and starts nothing, and
\* a job starts only in the step of a tick that fires with none running, so
\* a skipped tick is not run later.
C8_OneJobInFlight ==
  /\ [](Cardinality(Running) <= 1)
  /\ [][ /\ (sched'.ticks = sched.ticks + 1 /\ Running # {})
              => (sched'.skipped = sched.skipped + 1 /\ sched'.jobs = sched.jobs)
         /\ (\E j \in JobIds : sched.jobs[j] = "idle" /\ sched'.jobs[j] # "idle")
              => (sched'.ticks = sched.ticks + 1 /\ Running = {}) ]_vars

C8_Witness ==
  /\ sched.skipped >= 1
  /\ Cardinality(Running) = 1

\* C9: each tick's selection returns at most REFRESH_BATCH_SIZE names of
\* stored records (never-refreshed first, then oldest first), as many as
\* there are records to refresh up to that size, and ingest_many is invoked
\* on them. No stored record has ever had a refreshed_at written, so every
\* record is never-refreshed.
C9_TickSelectsBatch ==
  sched.last # None =>
    LET sel == Val(sched.last)
    IN  /\ sel.raised = ""
        /\ Len(sel.names) <= REFRESH_BATCH_SIZE
        /\ Range(sel.names) \subseteq StoredNames
        /\ (store # {} => sel.names # <<>>)

\* C10: no exception raised in a tick leaves refresh_stale_job, and a failed
\* tick does not stop the scheduler: the trigger can fire again.
C10_TickFailureIsContained ==
  /\ ~ sched.escaped
  /\ (sched.started /\ sched.ticks < MaxTicks) => ENABLED Tick

C10_Witness ==
  /\ sched.caught >= 1
  /\ \E j \in JobIds : sched.jobs[j] = "select"

(***************************************************************************)
(* SpecFail: one ingest_many call whose final commit may be refused.       *)
(***************************************************************************)
NextFail ==
  \/ hist = <<>> /\ \E names \in Batches : StartIngest("r1", names)
  \/ Lookup("r1")
  \/ CacheGet("r1")
  \/ Fetch("r1", {"A"})
  \/ Upsert("r1")
  \/ Commit("r1")
  \/ CommitFails("r1")
  \/ Return("r1")

SpecFail == Init /\ [][NextFail]_vars

\* C11: when the final commit of ingest_many fails, the records upserted for
\* the earlier names of the batch stay in the store: the name the call
\* recorded as ok before its last name still has its record.
C11_EarlierUpsertsSurviveCommitFailure ==
  \A c \in DOMAIN call :
    (/\ call[c].pc = "raised"
     /\ Len(call[c].names) = 2
     /\ Len(call[c].results.ok) = 2)
    => call[c].results.ok[1] \in StoredNames

\* C12: while the cache raises, a lookup is a miss and a write changes
\* nothing, and neither is an error: the name goes from the lookup straight
\* to the upstream fetch with its result lists untouched, and a fetched
\* payload goes on to the upsert, as with a working cache that holds nothing.
C12_CacheFailureIsAMiss ==
  /\ [](~cacheOk => cache = {})
  /\ [][ ~cacheOk =>
           \A c \in DOMAIN call :
             LET a == call[c]
                 b == call'[c]
             IN  /\ (a.pc = "cache_get" /\ b # a)
                      => (b.pc = "fetch" /\ b.results = a.results /\ b.i = a.i)
                 /\ (a.pc = "fetch" /\ b # a /\ b.log[Len(b.log)] = "fetch_ok")
                      => (b.pc = "upsert" /\ b.results = a.results /\ b.i = a.i) ]_vars

C12_Witness ==
  /\ ~cacheOk
  /\ Returned("r1")
  /\ call["r1"].log = <<"cache_miss", "fetch_ok", "insert">>
  /\ call["r1"].results.ok = <<mr_mime>>

\* C13: a record keeps the id it was created with: no step changes the id of
\* the record stored under a name, also when an ingestion overwrites its
\* other fields.
C13_IdNeverChanges ==
  [][ \A r \in store : \A q \in store' : q.name = r.name => q.id = r.id ]_vars

C13_Witness ==
  /\ Returned("r1")
  /\ call["r1"].log = <<"cache_miss", "fetch_ok", "update">>
  /\ \E r \in store : r.name = mr_mime /\ r.id = 2 /\ r.height_m = DivTen(5)

(***************************************************************************)
(* ingest_many over names that differ only in case, the same name repeated *)
(* inside the batch included, on a table earlier calls may have filled.    *)
(***************************************************************************)
Pikachu == <<"P","i","k","a","c","h","u">>

CaseNames == {pikachu, Pikachu}

CaseBatches == SeqsUpTo(CaseNames, MaxBatch)

NextCase ==
  \/ hist = <<>> /\ \E names \in CaseBatches : StartIngest("r1", names)
  \/ Lookup("r1")
  \/ CacheGet("r1")
  \/ Fetch("r1", {"A"})
  \/ Upsert("r1")
  \/ Commit("r1")
  \/ Return("r1")

SpecCase == Init /\ [][NextCase]_vars

\* The rows a reader may see: the committed table and the rows of the open
\* write transaction.
VisibleRowSets == {store} \cup (IF txn = None THEN {} ELSE {Val(txn).rows})

\* C14: in every reachable state no two records have the same name and every
\* record's name is lowercase, whatever ingest_many calls led there (a name
\* repeated in a batch, names that differ only in case).
C14_NamesUniqueAndLowercase ==
  \A rows \in VisibleRowSets :
    /\ \A r \in rows : r.name = lower(r.name)
    /\ \A r \in rows : \A q \in rows : r.name = q.name => r = q

C14_Witness ==
  /\ Returned("r1")
  /\ call["r1"].names = <<Pikachu, pikachu>>
  /\ call["r1"].pre = {}
  /\ StoredNames = {pikachu}
  /\ "insert" \in Range(call["r1"].log)

\* The refreshed_at of the record stored under a name, as the program can
\* read it: the attribute _upsert set on the object of a live session, else
\* the column of the stored row (absent when the table has no such column).
RefreshedAtOf(name, calls, rows) ==
  LET live == {st.at : st \in UNION {{x \in calls[c].sess.stamped : x.name = name} :
                                       c \in DOMAIN calls}}
      cols == {r["refreshed_at"] : r \in {x \in rows : x.name = name
                                                       /\ "refreshed_at" \in DOMAIN x}}
  IN  IF live # {} THEN Some(CHOOSE t \in live : \A u \in live : u <= t)
      ELSE IF cols # {} THEN CHOOSE v \in cols : TRUE
      ELSE None

\* C15: refreshedAt is monotonically non-decreasing per record: once a sync
\* has given a record a refreshedAt, no later step leaves the record with an
\* earlier value or with none.
C15_RefreshedAtNeverGoesBack ==
  [][ \A r \in store' :
        LET before == RefreshedAtOf(r.name, call, store)
            after  == RefreshedAtOf(r.name, call', store')
        IN  before # None => (after # None /\ Val(after) >= Val(before)) ]_vars

\* C16: a successful ingestion of a name that already has a record is a full
\* overwrite: afterwards every field except id equals the normalized new
\* payload (base_experience absent when the payload omits it), and
\* refreshed_at is bumped to the time of the sync.
C16_UpdateOverwritesAndBumps ==
  \A c \in DOMAIN call :
    (Returned(c) /\ Len(call[c].names) = 1 /\ Len(call[c].log) > 0
       /\ call[c].log[Len(call[c].log)] = "update")
    => \A r \in {x \in store : x.name = call[c].results.ok[1]} :
         /\ DataOf(r) \in {sanitize_pokemon_data(Payload(rev, r.name)) : rev \in RevsAB}
         /\ "refreshed_at" \in DOMAIN r
         /\ r["refreshed_at"] # None
         /\ r["refreshed_at"] >= call[c].t0

\* C17: the upstream fetch is tri-state. A 404 response gives
\* PokemonNotFoundError and ingest_many puts the name in not_found; any
\* other status that is not a success, or a transport failure, gives a
\* PokeAPIError that is not a not-found and carries a cause, and ingest_many
\* puts the name in errors; a success response gives its payload, which goes
\* on to normalization with the result lists untouched.
C17_FetchIsTriState ==
  [][ \A c \in DOMAIN call :
        IF call[c].pc # "fetch" THEN TRUE
        ELSE LET a    == call[c]
                 b    == call'[c]
                 name == a.names[a.i]
             IN  \A resp \in UpstreamAnswers(Slug(name), RevsABM) :
                   LET got == get_pokemon_by_name(resp)
                   IN  IF ~FetchResp(c, resp) THEN TRUE
                       ELSE IF resp.failed THEN
                         /\ got.raised = "PokeAPIError" /\ got.cause # ""
                         /\ b.results = [a.results EXCEPT !.errors =
                                           Append(@, [name |-> name, error |-> "PokeAPIError"])]
                       ELSE IF resp.status = 404 THEN
                         /\ got.raised = "PokemonNotFoundError"
                         /\ b.results = [a.results EXCEPT !.not_found = Append(@, name)]
                       ELSE IF resp.status >= 400 THEN
                         /\ got.raised = "PokeAPIError" /\ got.cause # ""
                         /\ b.results = [a.results EXCEPT !.errors =
                                           Append(@, [name |-> name, error |-> "PokeAPIError"])]
                       ELSE
                         /\ got.raised = ""
                         /\ b.raw = resp.body /\ b.pc = "upsert" /\ b.results = a.results ]_vars

C17_Witness ==
  /\ Returned("r1")
  /\ call["r1"].names = <<pikachu, mrmime>>
  /\ call["r1"].log = <<"cache_miss", "fetch_error", "cache_miss", "fetch_404">>
  /\ call["r1"].results = [ok |-> <<>>, not_found |-> <<mrmime>>,
                           errors |-> <<[name |-> pikachu, error |-> "PokeAPIError"]>>]

\* C18: a payload without the upstream numeric id makes normalization fail;
\* ingest_many records the name with the error in errors, creates or changes
\* no record for it (nothing is added to the session, and a call that has
\* upserted nothing leaves the table as it was), and goes on to the next
\* name.
C18_MalformedPayloadIsAnError ==
  [][ \A c \in DOMAIN call :
        LET a == call[c]
            b == call'[c]
        IN  /\ IF a.pc = "upsert" /\ b # a
               THEN IF IsNone(Val(a.raw).id)
                    THEN /\ b.results = [a.results EXCEPT !.errors =
                                Append(@, [name |-> a.names[a.i], error |-> "ValueError"])]
                         /\ b.sess = a.sess
                         /\ b.i = a.i + 1
                         /\ b.pc = IF a.i < Len(a.names) THEN "lookup" ELSE "commit"
                    ELSE TRUE
               ELSE TRUE
            /\ IF Range(a.log) \cap WriteEvents = {}
               THEN store' = store /\ txn' = txn
               ELSE TRUE ]_vars

C18_Witness ==
  /\ Returned("r1")
  /\ call["r1"].names = <<mrmime, pikachu>>
  /\ call["r1"].pre = {}
  /\ call["r1"].results = [ok |-> <<pikachu>>, not_found |-> <<>>,
                           errors |-> <<[name |-> mrmime, error |-> "ValueError"]>>]
  /\ StoredNames = {pikachu}

(***************************************************************************)
(* ingest_many([n]) over inputs that hit and miss the alias table.         *)
(***************************************************************************)
tapukoko      == <<"t","a","p","u","k","o","k","o">>
tapu_koko     == <<"t","a","p","u","-","k","o","k","o">>
PaddedPikachu == <<" ","P","i","k","a","c","h","u"," ">>
MrDotMime     == <<"M","r","."," ","M","i","m","e">>

AliasNames == {mrmime, tapukoko, pikachu, PaddedPikachu, MrDotMime}

NextAlias ==
  \/ hist = <<>> /\ \E n \in AliasNames : StartIngest("r1", <<n>>)
  \/ Lookup("r1")
  \/ CacheGet("r1")
  \/ Fetch("r1", {"A"})
  \/ Upsert("r1")
  \/ Commit("r1")
  \/ Return("r1")

SpecAlias == Init /\ [][NextAlias]_vars

\* The identifier the upstream is to be asked for, per input.
ExpectedSlug(n) ==
  CASE n = mrmime        -> mr_mime
    [] n = tapukoko      -> tapu_koko
    [] n = pikachu       -> pikachu
    [] n = PaddedPikachu -> Pikachu
    [] n = MrDotMime     -> mr_mime

\* C19: alias resolution. The trimmed, lowercased, letters-and-digits token
\* of the input is looked up in the alias table; a hit gives the mapped slug
\* ("mrmime" -> "mr-mime", "tapukoko" -> "tapu-koko"), a miss gives the
\* trimmed raw input unchanged, not the token ("pikachu" passes through),
\* and the upstream request is made for exactly that identifier: every GET
\* the fetch step issues is for it, and the payload handed on is the
\* resource of that identifier.
C19_AliasResolution ==
  [][ \A c \in DOMAIN call :
        IF call[c].pc # "fetch" THEN TRUE
        ELSE LET a    == call[c]
                 b    == call'[c]
                 name == a.names[a.i]
             IN  \A resp \in UpstreamAnswers(Slug(name), {"A"}) :
                   IF ~FetchResp(c, resp) THEN TRUE
                   ELSE /\ resp.url = ExpectedSlug(name)
                        /\ IF b.pc = "upsert"
                           THEN b.raw = Some(Payload("A", ExpectedSlug(name)))
                           ELSE TRUE ]_vars

C19_Witness ==
  /\ Returned("r1")
  /\ call["r1"].names = <<PaddedPikachu>>
  /\ call["r1"].log = <<"cache_miss", "fetch_ok", "insert">>
  /\ call["r1"].results.ok = <<pikachu>>

(***************************************************************************)
(* Where raw names enter: the request body (PokemonIngestRequest) and the  *)
(* seed CSV read at startup. The two gender glyphs are one character each, *)
(* written by their code points.                                           *)
(***************************************************************************)
FemaleGlyph == "U+2640"
MaleGlyph   == "U+2642"

\* s.replace(female, "f").replace(male, "m")
ReplaceGlyphs(s) ==
  [i \in 1..Len(s) |-> IF s[i] = FemaleGlyph THEN "f"
                       ELSE IF s[i] = MaleGlyph THEN "m"
                       ELSE s[i]]

\* One name through PokemonIngestRequest._normalize (lines 25-28).
NormalizeName(x) == KeepAlnum(ReplaceGlyphs(lower(strip(x))))

NonEmpty(s) == s # <<>>

\* PokemonIngestRequest._normalize: empty results are dropped.
_normalize(v) == SelectSeq([i \in 1..Len(v) |-> NormalizeName(v[i])], NonEmpty)

\* read_pokemon_csv: each name cell trimmed and lowercased, empty ones
\* dropped.
read_pokemon_csv(rows) == SelectSeq([i \in 1..Len(rows) |-> lower(strip(rows[i]))], NonEmpty)

NidoranFemale == <<"N","i","d","o","r","a","n",FemaleGlyph>>
nidoranf      == <<"n","i","d","o","r","a","n","f">>

GlyphNames == {NidoranFemale, nidoranf, <<" ">>}

\* POST /pokemon: add_pokemon validates the body and ingests data.names.
AddPokemon(c, body) == StartIngest(c, _normalize(body))

\* sync_on_start: the seed CSV goes to ingest_many as read.
SyncOnStart(c, rows) ==
  /\ read_pokemon_csv(rows) # <<>>
  /\ StartIngest(c, read_pokemon_csv(rows))

NextGlyph ==
  \/ hist = <<>> /\ \E n \in GlyphNames : AddPokemon("r1", <<n>>)
  \/ hist = <<>> /\ \E n \in GlyphNames : SyncOnStart("r1", <<n>>)
  \/ Lookup("r1")
  \/ CacheGet("r1")
  \/ Fetch("r1", {"A"})
  \/ Upsert("r1")
  \/ Commit("r1")
  \/ Return("r1")

SpecGlyph == Init /\ [][NextGlyph]_vars

\* C20: the name normalization (trim, lowercase, gender glyphs to f/m, drop
\* what is not a letter or digit) is the same at every place raw input
\* enters: for every name handed to ingest_many the request normalizer, the
\* alias resolver's lookup token and the cache-key token agree.
C20_SameTokenEverywhere ==
  \A c \in DOMAIN call :
    \A i \in 1..Len(call[c].names) :
      LET x == call[c].names[i]
      IN  /\ AliasToken(x) = NormalizeName(x)
          /\ CacheKey(x) = NormalizeName(x)

(***************************************************************************)
(* ingest_many([n]) against an upstream that serves a full payload or one  *)
(* whose stat list omits "speed" and holds an unknown stat.                *)
(***************************************************************************)
NextStats ==
  \/ hist = <<>> /\ \E n \in InputNames : StartIngest("r1", <<n>>)
  \/ Lookup("r1")
  \/ CacheGet("r1")
  \/ Fetch("r1", RevsAB)
  \/ Upsert("r1")
  \/ Commit("r1")
  \/ Return("r1")

SpecStats == Init /\ [][NextStats]_vars

\* The value a canonical stat is to have: the base_stat of its last entry
\* in the upstream list, 0 when the list has none.
ExpectedStat(k, raw_stats) ==
  LET at == {i \in 1..Len(raw_stats) : raw_stats[i].stat = k}
  IN  IF at = {} THEN 0
      ELSE raw_stats[CHOOSE i \in at : \A j \in at : j <= i].base_stat

\* C21: the stats of every normalized payload and of every stored record
\* have exactly the six canonical keys; a canonical stat missing from the
\* upstream list is 0 and entries with other names are ignored.
C21_StatsHaveSixKeys ==
  /\ \A rows \in VisibleRowSets : \A r \in rows : DOMAIN r.stats = STAT_KEYS
  /\ \A c \in DOMAIN call :
       /\ IF call[c].sess.pending = None THEN TRUE
          ELSE DOMAIN Val(call[c].sess.pending).vals.stats = STAT_KEYS
       /\ IF call[c].pc # "upsert" THEN TRUE
          ELSE IF SanitizeRaises(Val(call[c].raw)) THEN TRUE
          ELSE LET raw  == Val(call[c].raw)
                   data == sanitize_pokemon_data(raw)
               IN  /\ DOMAIN data.stats = STAT_KEYS
                   /\ \A k \in STAT_KEYS : data.stats[k] = ExpectedStat(k, raw.stats)

C21_Witness ==
  /\ Returned("r1")
  /\ call["r1"].log = <<"cache_miss", "fetch_ok", "insert">>
  /\ \E r \in store : /\ r.name = pikachu
                      /\ r.stats["speed"] = 0 /\ r.stats["hp"] = 36
                      /\ DOMAIN r.stats = STAT_KEYS

(***************************************************************************)
(* ingest_many([n]) against an upstream whose payloads have height and     *)
(* weight in several sizes, or lack them.                                  *)
(***************************************************************************)
NextUnits ==
  \/ hist = <<>> /\ \E n \in InputNames : StartIngest("r1", <<n>>)
  \/ Lookup("r1")
  \/ CacheGet("r1")
  \/ Fetch("r1", RevsACH)
  \/ Upsert("r1")
  \/ Commit("r1")
  \/ Return("r1")

SpecUnits == Init /\ [][NextUnits]_vars

\* q is one tenth of the raw number x, as a decimal with one fraction digit.
IsTenthOf(q, x) == q.tenths \in 0..9 /\ 10 * q.int + q.tenths = x

\* C22: normalization converts units by one tenth: height_m and weight_kg
\* are the raw height and weight divided by 10 (10 and 100 give 1.0 and
\* 10.0), a missing height or weight gives 0, and that is what the record
\* stores.
C22_UnitsAreTenths ==
  /\ [](\A c \in DOMAIN call :
          IF call[c].pc # "upsert" THEN TRUE
          ELSE IF SanitizeRaises(Val(call[c].raw)) THEN TRUE
          ELSE LET raw  == Val(call[c].raw)
                   data == sanitize_pokemon_data(raw)
               IN  /\ IsTenthOf(data.height_m,
                                IF "height" \in DOMAIN raw THEN raw.height ELSE 0)
                   /\ IsTenthOf(data.weight_kg,
                                IF "weight" \in DOMAIN raw THEN raw.weight ELSE 0)
                   /\ raw = PayloadC(raw.name)
                        => /\ data.height_m = [int |-> 1, tenths |-> 0]
                           /\ data.weight_kg = [int |-> 10, tenths |-> 0])
  /\ [][ \A c \in DOMAIN call :
           LET a == call[c]
               b == call'[c]
           IN  /\ IF a.pc = "upsert" /\ b.pc # "upsert" /\ b.sess.pending # None
                  THEN LET raw == Val(a.raw)
                           v   == Val(b.sess.pending).vals
                       IN  /\ IsTenthOf(v.height_m,
                                        IF "height" \in DOMAIN raw THEN raw.height ELSE 0)
                           /\ IsTenthOf(v.weight_kg,
                                        IF "weight" \in DOMAIN raw THEN raw.weight ELSE 0)
                  ELSE TRUE
               /\ IF a.pc = "commit" /\ b.pc = "done" /\ a.sess.pending # None
                  THEN LET v == Val(a.sess.pending).vals
                       IN  \E r \in store' : /\ r.name = v.name
                                             /\ r.height_m = v.height_m
                                             /\ r.weight_kg = v.weight_kg
                  ELSE TRUE ]_vars

C22_Witness ==
  /\ Returned("r1")
  /\ call["r1"].log = <<"cache_miss", "fetch_ok", "insert">>
  /\ \E r \in store : /\ r.name = pikachu
                      /\ r.height_m = [int |-> 1, tenths |-> 0]
                      /\ r.weight_kg = [int |-> 10, tenths |-> 0]

(***************************************************************************)
(* api/pokemon.py list_pokemon_by_type (POST /pokemon/by-type).            *)
(***************************************************************************)
swampert  == <<"s","w","a","m","p","e","r","t">>
bulbasaur == <<"b","u","l","b","a","s","a","u","r">>
water     == <<"w","a","t","e","r">>
Water     == <<"W","a","t","e","r">>
ground    == <<"g","r","o","u","n","d">>
grass     == <<"g","r","a","s","s">>
poison    == <<"p","o","i","s","o","n">>

\* request.args.get("limit", default=200, type=int)
DEFAULT_LIMIT == 200

\* TypesFilterRequest._normalize_types: trimmed, lowercased, empty entries
\* and repeats dropped, first occurrences kept in order.
RECURSIVE NormalizeTypesFrom(_, _)
NormalizeTypesFrom(out, v) ==
  IF v = <<>> THEN out
  ELSE LET t == lower(strip(Head(v)))
       IN  IF t = <<>> \/ t \in Range(out)
           THEN NormalizeTypesFrom(out, Tail(v))
           ELSE NormalizeTypesFrom(Append(out, t), Tail(v))

_normalize_types(v) == NormalizeTypesFrom(<<>>, v)

\* Lines 137-139: the limit of the query string; absent or not positive
\* means 200.
EffectiveLimit(limit) ==
  IF limit = None THEN DEFAULT_LIMIT
  ELSE IF Val(limit) <= 0 THEN DEFAULT_LIMIT
  ELSE Val(limit)

\* A record matches when its types hold every wanted type.
MatchesEvery(pokemon, wanted) == wanted \subseteq Range(pokemon.types)

\* Line 146: pokemon_types.intersection(wanted) is not empty.
Matches(pokemon, wanted) == Range(pokemon.types) \cap wanted # {}

\* Lines 142-149: the loop over Pokemon.query.all() with its break.
RECURSIVE CollectMatches(_, _, _, _)
CollectMatches(matches, all, wanted, limit) ==
  IF all = <<>> THEN matches
  ELSE IF Matches(Head(all), wanted)
       THEN LET more == Append(matches, Head(all))
            IN  IF Len(more) >= limit THEN more
                ELSE CollectMatches(more, Tail(all), wanted, limit)
       ELSE CollectMatches(matches, Tail(all), wanted, limit)

\* The orders in which a SELECT without ORDER BY may return rows.
QueryAll(rows) ==
  {q \in [1..Cardinality(rows) -> rows] : \A i, j \in DOMAIN q : q[i] = q[j] => i = j}

\* list_pokemon_by_type: an empty types list answers [] at once.
ListByType(body, limit) ==
  LET types == _normalize_types(body)
  IN
  /\ reply = None
  /\ \E all \in QueryAll(store) :
       reply' = Some([types |-> types, limit |-> limit,
                      items |-> IF types = <<>> THEN <<>>
                                ELSE CollectMatches(<<>>, all, Range(types),
                                                    EffectiveLimit(limit))])
  /\ UNCHANGED <<store, txn, cache, cacheOk, now, nextId, call, sched, hist>>

TypedRow(id, name, types) == [SeedRow(id, name) EXCEPT !.types = types]

\* Tables earlier ingestions left: records of one and of two types.
TypedStores ==
  SUBSET {TypedRow(1, pikachu, <<electric>>), TypedRow(2, swampert, <<water, ground>>),
          TypedRow(4, bulbasaur, <<grass, poison>>)}

TypeBodies ==
  {<<>>, <<water>>, <<water, ground>>, <<Water, water>>, <<electric, poison>>, <<fairy>>}

Limits == {None, Some(0), Some(1), Some(2)}

InitFilter ==
  /\ store \in TypedStores
  /\ txn = None
  /\ cache = {}
  /\ cacheOk = TRUE
  /\ now = 0
  /\ nextId = 5
  /\ call = [c \in {"r1"} |-> IdleCall]
  /\ sched = SchedOff
  /\ hist = <<>>
  /\ reply = None

NextFilter ==
  \/ hist = <<>> /\ StartIngest("r1", <<mrmime>>)
  \/ Lookup("r1")
  \/ CacheGet("r1")
  \/ Fetch("r1", RevsAB)
  \/ Upsert("r1")
  \/ Commit("r1")
  \/ Return("r1")
  \/ \E body \in TypeBodies : \E limit \in Limits : ListByType(body, limit)

SpecFilter == InitFilter /\ [][NextFilter]_vars

Min(a, b) == IF a <= b THEN a ELSE b

\* The records and the wanted sets of the by-type example.
ExampleTypes == {<<electric>>, <<water, ground>>, <<grass, poison>>}
ExampleWanted == {{water, ground}, {water}}

\* C23: the by-type filter has union semantics without duplicates: for a
\* non-empty wanted set it answers exactly the stored records that share a
\* type with it (as many as the limit allows), each once; with records typed
\* {electric}, {water, ground}, {grass, poison}, wanted {water, ground} and
\* wanted {water} both answer the second record alone.
C23_ByTypeIsUnion ==
  [][ IF reply' = reply THEN TRUE
      ELSE LET r        == Val(reply')
               wanted   == Range(r.types)
               matching == {p \in store : \E t \in wanted : t \in Range(p.types)}
               lim      == IF r.limit \in {Some(1), Some(2)} THEN Val(r.limit) ELSE 200
           IN  /\ \A i, j \in 1..Len(r.items) : r.items[i] = r.items[j] => i = j
               /\ Range(r.items) \subseteq matching
               /\ Len(r.items) = Min(lim, Cardinality(matching))
               /\ (/\ {p.types : p \in store} = ExampleTypes
                   /\ wanted \in ExampleWanted)
                  => r.items = <<TypedRow(2, swampert, <<water, ground>>)>> ]_vars

C23_Witness ==
  /\ reply # None
  /\ Cardinality(store) = 3
  /\ Val(reply).types = <<water, ground>>
  /\ Val(reply).limit = None
  /\ Len(Val(reply).items) = 1
  /\ Val(reply).items[1].name = swampert

\* C24: the DB-first check and the scheduler's selection filter are the same
\* staleness predicate: at every instant, for every stored record (as a
\* session loads it), both can be evaluated, and the record passes the
\* scheduler's filter if and only if _is_stale holds for it.
C24_SameStalenessPredicate ==
  \A r \in store :
    \A existing \in Loaded({}, r) :
      LET sel == _select_stale_names(store)
      IN  /\ sel.raised = ""
          /\ ~ IsStaleRaises(existing)
          /\ (r.name \in Range(sel.names)) <=> _is_stale(existing, now)

\* The record stored under nm was synced by a completed call that began
\* within the staleness TTL: it is not stale.
SyncedWithinTtl(nm) ==
  /\ nm \in StoredNames
  /\ \E k \in 1..Len(hist) :
       /\ hist[k].pc = "done"
       /\ nm \in Range(hist[k].results.ok)
       /\ now - hist[k].t0 <= STALE_TTL_MINUTES

\* C25: when ingest_many processes a name whose lowercased form matches a
\* stored record that is not stale, it records the name in ok and touches
\* nothing else: no cache lookup or write, no upstream request, the record
\* unchanged.
C25_FreshRecordIsOkAndUntouched ==
  [][ \A c \in DOMAIN call :
        LET a == call[c]
            b == call'[c]
        IN  IF a.pc = "lookup" /\ b # a
            THEN IF SyncedWithinTtl(lower(a.names[a.i]))
                 THEN /\ b.results = [a.results EXCEPT !.ok = Append(@, lower(a.names[a.i]))]
                      /\ b.i = a.i + 1
                      /\ b.pc \in {"lookup", "commit"}
                      /\ Range(b.log) \cap CacheOrFetchEvents
                           = Range(a.log) \cap CacheOrFetchEvents
                      /\ store' = store
                      /\ cache' = cache
                 ELSE TRUE
            ELSE TRUE ]_vars

\* A name and the same name padded with blanks.
CachedNames == {pikachu, PaddedPikachu}

(***************************************************************************)
(* Requests one after another, each ingest_many([n]), over a name and the  *)
(* same name padded with blanks: both have the cache key of the record,    *)
(* the padded one misses the record lookup.                                *)
(***************************************************************************)
NextCached ==
  \/ Len(hist) < MaxCalls /\ \E n \in CachedNames : StartIngest("r1", <<n>>)
  \/ Lookup("r1")
  \/ CacheGet("r1")
  \/ Fetch("r1", RevsAM)
  \/ Upsert("r1")
  \/ Commit("r1")
  \/ Return("r1")
  \/ TimePasses

SpecCached == Init /\ [][NextCached]_vars

\* A completed call has synced the record stored under nm; a record no call
\* has synced was never refreshed, hence is stale.
EverSynced(nm) ==
  \E k \in 1..Len(hist) : hist[k].pc = "done" /\ nm \in Range(hist[k].results.ok)

\* C26: with a working cache, while the cache holds an unexpired entry under
\* a name's key, an ingestion of that name uses the cached payload and makes
\* no upstream request, also when the name has a stale record: a name
\* whose record was never refreshed goes on from the record lookup to the
\* cache, and the cache lookup hands the cached payload to normalization.
C26_LiveEntryIsUsed ==
  [][ \A c \in DOMAIN call :
        LET a    == call[c]
            b    == call'[c]
            live == CacheLive(CacheKey(a.names[a.i]), now)
        IN  IF cacheOk /\ b # a /\ a.pc \in {"lookup", "cache_get"}
            THEN IF live = {} THEN TRUE
                 ELSE IF a.pc = "lookup"
                 THEN IF EverSynced(lower(a.names[a.i])) THEN TRUE
                      ELSE b.pc = "cache_get"
                 ELSE /\ b.pc = "upsert"
                      /\ b.raw \in {Some(e.value) : e \in live}
                      /\ b.log = Append(a.log, "cache_hit")
            ELSE TRUE ]_vars

FetchEvents == {"fetch_ok", "fetch_404", "fetch_error"}

\* C27: no retry inside a pass. One ingest_many call issues at most one
\* upstream request per entry of names: the requests a call has made never
\* outnumber the entries it has begun, every request ends its fetch step,
\* and a name whose request ends in a transient error is put in errors and
\* the call moves on, without a second request.
C27_NoRetryInsidePass ==
  /\ [](\A c \in DOMAIN call :
          Cardinality({k \in 1..Len(call[c].log) : call[c].log[k] \in FetchEvents})
            <= (IF call[c].i <= Len(call[c].names) THEN call[c].i ELSE Len(call[c].names)))
  /\ [][ \A c \in DOMAIN call :
           LET a == call[c]
               b == call'[c]
           IN  IF a.pc = "fetch" /\ b # a
               THEN /\ b.pc # "fetch"
                    /\ Len(b.log) = Len(a.log) + 1
                    /\ b.log[Len(b.log)] \in FetchEvents
                    /\ IF b.log[Len(b.log)] = "fetch_error"
                       THEN /\ b.i = a.i + 1
                            /\ b.results = [a.results EXCEPT !.errors =
                                 Append(@, [name |-> a.names[a.i], error |-> "PokeAPIError"])]
                       ELSE TRUE
               ELSE TRUE ]_vars

C27_Witness ==
  /\ Returned("r1")
  /\ call["r1"].names = <<pikachu, mrmime>>
  /\ call["r1"].log = <<"cache_miss", "fetch_error", "cache_miss", "fetch_ok", "insert">>
  /\ call["r1"].results.errors = <<[name |-> pikachu, error |-> "PokeAPIError"]>>

FailedAttemptEvents == {"fetch_404", "fetch_error", "sanitize_error"}

\* C28: when the attempt for a name whose record exists and is stale ends in
\* not-found, a transient upstream error or a normalization failure, the
\* stored record is left as it was (same id, same fields), so it is still
\* stale and the scheduler's selection picks it again on the next tick.
C28_FailedAttemptLeavesRecordEligible ==
  \A c \in DOMAIN call :
    LET n  == call[c].names[1]
        nm == lower(Slug(n))
    IN  (/\ Returned(c)
         /\ Len(call[c].names) = 1
         /\ nm \in call[c].pre
         /\ Len(call[c].log) > 0
         /\ call[c].log[Len(call[c].log)] \in FailedAttemptEvents)
        => /\ \E r \in store : r.name = nm /\ r = SeedRow(r.id, nm)
           /\ LET sel == _select_stale_names(store)
              IN  sel.raised = "" /\ nm \in Range(sel.names)

(***************************************************************************)
(* The scheduler with ticks firing fairly: the interval trigger fires      *)
(* while it can, and a submitted job runs to its end.                      *)
(***************************************************************************)
SpecSchedFair ==
  /\ Init
  /\ [][NextSched]_vars
  /\ WF_vars(Tick)
  /\ WF_vars(\E j \in JobIds : JobSelect(j))
  /\ WF_vars(\E j \in JobIds : JobEnd(j))

C30_MalformedPayloadStaysCached ==
  /\ [][ /\ \A c \in DOMAIN call :
              LET a == call[c]
                  b == call'[c]
              IN  IF a.pc = "fetch" /\ b # a
                  THEN IF b.log[Len(b.log)] = "fetch_ok"
                       THEN /\ b.pc = "upsert"
                            /\ cacheOk =>
                                 [key |-> CacheKey(a.names[a.i]), value |-> Val(b.raw),
                                  expires |-> now + CACHE_DEFAULT_TIMEOUT] \in cache'
                       ELSE cache' = cache
                  ELSE TRUE
         /\ IF cache' # cache
            THEN \E c \in DOMAIN call : call[c].pc = "fetch" /\ call'[c].pc = "upsert"
            ELSE TRUE ]_vars
  /\ [](\A c \in DOMAIN call :
          IF Returned(c) /\ Len(call[c].names) = 1 /\ hist # <<>> /\ cacheOk
          THEN LET h == hist[Len(hist)]
               IN  (/\ h.names = call[c].names
                    /\ h.log = <<"cache_miss", "fetch_ok", "sanitize_error">>
                    /\ now < h.t0 + CACHE_DEFAULT_TIMEOUT)
                   => /\ call[c].log = <<"cache_hit", "sanitize_error">>
                      /\ call[c].results = h.results
                      /\ call[c].results.errors =
                           <<[name |-> call[c].names[1], error |-> "ValueError"]>>
          ELSE TRUE)

C30_Witness ==
  /\ Returned("r1")
  /\ Len(hist) = 1
  /\ hist[1].names = <<pikachu>>
  /\ hist[1].log = <<"cache_miss", "fetch_ok", "sanitize_error">>
  /\ call["r1"].names = <<pikachu>>
  /\ call["r1"].log = <<"cache_hit", "sanitize_error">>
  /\ store = {}

====
